---- MODULE Spec2Model ----
\* Token-bucket rate limiter on a shared Redis store (package limiter).
\*
\* Two variants of RedisBucket exist in the repository:
\*   "keyed"  : one limiter serves many keys; the record of a key is one Redis
\*              hash with the fields last_refill_time and tokens and one TTL.
\*   "single" : one limiter per key; the record is two string keys, <key> and
\*              <key>:last_refill, each with its own 24 h TTL.
\*
\* Units.  Time is in milliseconds, as in the code (UnixMilli).  Token amounts
\* are Lua doubles in the code; in the limiter's state machine they are
\* integers counting 1/1000 of a token ("milli-tokens"): with the rate Rate
\* and a clock that advances by TickSteps every amount the scripts compute is
\* a multiple of half a token, which a double holds exactly.  The scripts are
\* also given in double arithmetic (TakeNScriptNumber, AllowNScriptNumber)
\* for calls at arbitrary milliseconds, where the results are rounded.
EXTENDS Integers, Sequences, FiniteSets, TLC

\* ---------------------------------------------------------------- bounds
MaxRetry == 2       \* largest Config.RetryCount of an HTTP client
MaxTasks == 3       \* number of tasks handed to a goroutine pool
Burst == 2          \* Config.Burst, the capacity the limiters are built with
MaxTicks == 2       \* number of clock advances in a behaviour
MaxCalls == 3       \* number of calls made on both variants side by side

\* ------------------------------------------------------- program constants
Rate == 10          \* Config.Rate, tokens per second
ExpirationMs == 2000 \* Config.Expiration of the keyed limiter, 2 * time.Second
SingleTtlSec == 86400 \* TTL hard-coded in the single-key script
Unit == 1000        \* milli-tokens per token, milliseconds per second
DefaultBurst == 20  \* Burst of NewDefaultConfig
DefaultExpirationMs == 3600000 \* Expiration of NewDefaultConfig, time.Hour
MantissaBits == 53  \* bits of the significand of a Lua number (a double)

Callers == {"c1", "c2"}
Keys == {"a", "a:last_refill"}
Variants == {"keyed", "single"}
TickSteps == {50, 200}
NowSteps == {0, 8, 11, 92}
NRange == {-1, 0, 1, 2, Burst + 1}

NoErr == "nil"
ErrTokens == "tokens must be greater than 0"
ErrResultType == "invalid result type"
ErrTokensType == "invalid tokens type"
ErrResponse == "invalid response from redis"
ErrAllowedType == "unknown type for allowed"
ErrStore == "store round trip failed"
ErrPanic == "panic: index out of range"

VARIABLES
  cfg,          \* the configuration the limiters were constructed with
  clock,        \* real time, ms since the start of the behaviour
  ticks,        \* clock advances taken so far
  redis,        \* the Redis keyspace: the value and expiry under each name
  pc,           \* position of each caller in AllowN
  key,          \* the key of the caller's call in flight
  n,            \* the n of the caller's call in flight
  now,          \* the `now` the caller sampled for its call in flight
  tries,        \* round trips of the caller's call in flight that have ended
  res,          \* what the most recently completed AllowN returned
  obs,          \* that call's arguments, and what its script read and computed:
                \* elapsed = now - last_refill_time, preTokens = tokens held before,
                \* refilled = amount available after refill, before consumption,
                \* stored = tokens held right after the call,
                \* tries = round trips the call made, reborn = the call
                \* found no record because the TTL had removed a record
                \* that held fewer tokens than the capacity,
                \* replied = a reply of the store reached the call
  wire,         \* the reply that call received from the store
  burstLen,     \* per key: length of the run of Allow calls at one instant since the record was created
  epochAvail,   \* per key: amount available at the start of the current instant
  epochGranted, \* per key: tokens granted to callers during the current instant
  expired,      \* per key: the key has no record since its TTL removed one
                \* that held fewer tokens than the capacity
  win           \* the window of calls on key "a" being measured, if one is
                \* open: the `now` of its first and of its latest admitted
                \* call, the tokens granted in it, and whether the `now`
                \* values were non-decreasing in the order of admission

\* MemoryCache (package cache) and the goroutines using it.
VARIABLES
  items,        \* MemoryCache.items: per key the entry, if any
  ctime,        \* time.Now() of the cache's process
  cpc,          \* position of each goroutine in its cache operation
  ckey,         \* the key of the goroutine's operation in flight
  carg,         \* its value (Set) or the type of its dest (Get)
  csnap,        \* the entry it read under the read lock (Get, Exists)
  cexp,         \* the expiry it computed before taking the lock (Set)
  pending,      \* keys with a started, not yet finished `go m.Delete(ctx, key)`
  cres,         \* the most recently completed cache operation and its result
  how,          \* per key: the latest change of the key in items: "set" by
                \* a Set, "removed" by a Delete, a Clear or the cleanup
  todo          \* per goroutine: the calls its test function has still to
                \* make, in order; empty for a goroutine that runs no test

\* The goroutine pools (package goroutine_pool) over an ants pool.
VARIABLES
  pcfg,         \* the pool: its kind ("pool" or "func"), size and options
  pwg,          \* the counter of the pool's sync.WaitGroup
  pstate,       \* per task: "new", "blocked" (its Submit waits for a worker),
                \* "running", "ended" (returned or panicked, Done not yet
                \* called), "done", or "rejected" by the ants pool
  ppanic,       \* per task: the task panics
  perrs,        \* errList: the task of each recorded panic, in order
  psub,         \* position of the submitting goroutine
  pnext,        \* the number of the next task it submits
  preleased,    \* Release has been called
  pret,         \* what its most recent Submit or Invoke returned
  plist         \* what its most recent ErrList() returned

\* The HTTP client (package request) and its one caller.
VARIABLES
  hcfg,         \* Config: RetryCount
  hpc,          \* position of the caller in Do: "idle", "loop" (at the loop
                \* condition), "sent" (in httpClient.Do) or "done"
  hretry,       \* Do's retryCount
  hreq,         \* the request: whether it has a body, the bytes req.Body
                \* still yields, and its ContentLength
  hlog,         \* the calls of httpClient.Do so far: the body each had to
                \* send and how it ended
  hlastErr,     \* Do's lastErr
  hlastResp,    \* Do's lastResp: its status code, 0 for nil
  hres          \* what Do returned

\* The two limiter variants given the same calls, computing in doubles.
VARIABLES
  both          \* the record of the key under each variant, what the latest
                \* call returned under each, the `now` of that call and the
                \* number of calls so far

limVars == <<cfg, clock, ticks, redis, pc, key, n, now, tries, res, obs, wire,
             burstLen, epochAvail, epochGranted, expired, win>>
cacheVars == <<items, ctime, cpc, ckey, carg, csnap, cexp, pending, cres,
               how, todo>>
poolVars == <<pcfg, pwg, pstate, ppanic, perrs, psub, pnext, preleased, pret,
              plist>>
httpVars == <<hcfg, hpc, hretry, hreq, hlog, hlastErr, hlastResp, hres>>
bothVars == <<both>>
\* What the limiter, the cache, the pool and the client each leave alone.
nonLimVars == <<cacheVars, poolVars, httpVars, bothVars>>
nonCacheVars == <<limVars, poolVars, httpVars, bothVars>>
nonPoolVars == <<limVars, cacheVars, httpVars, bothVars>>
nonHttpVars == <<limVars, cacheVars, poolVars, bothVars>>
nonBothVars == <<limVars, cacheVars, poolVars, httpVars>>
vars == <<limVars, cacheVars, poolVars, httpVars, bothVars>>

\* ------------------------------------------------------------ pure helpers
Min(a, b) == IF a < b THEN a ELSE b
Max(S) == CHOOSE x \in S : \A y \in S : y <= x

\* Conversion of a number to an integer, dropping the fraction (toward zero):
\* Redis' conversion of a Lua number to an integer reply, and Go's int64(v).
Trunc(milli) == IF milli >= 0 THEN milli \div Unit ELSE -((-milli) \div Unit)

\* Config.Expiration as the script's ttl argument: int(Expiration.Seconds()).
TtlSeconds(expirationMs) == expirationMs \div Unit

\* A Redis record.  hasTok/hasLast say whether the field (keyed) or the string
\* key (single) exists; tokExp/lastExp are the times at which they expire.
EmptyRecord == [hasTok |-> FALSE, tokens |-> 0, tokExp |-> 0,
                hasLast |-> FALSE, last |-> 0, lastExp |-> 0]

\* EXPIRE key ttl at store time t: a ttl <= 0 deletes the key at once.
Expire(rec, ttl, t) ==
  IF ttl <= 0 THEN EmptyRecord
  ELSE [rec EXCEPT !.tokExp = t + ttl * Unit, !.lastExp = t + ttl * Unit]

\* Values of a Redis reply as go-redis hands them to the caller.
RNil == [t |-> "nil", v |-> 0]
RInt(i) == [t |-> "int64", v |-> i]

\* Redis' conversion of the Lua values a script returns: a number becomes an
\* integer reply without its fraction, true becomes 1, false becomes nil.
LuaNumber(milli) == RInt(Trunc(milli))
LuaBoolean(b) == IF b THEN RInt(1) ELSE RNil

RFloat(milli) == [t |-> "float64", v |-> milli]
RBool(b) == [t |-> "bool", v |-> IF b THEN 1 ELSE 0]
RStr == [t |-> "string", v |-> 0]
Reply(elems) == [arr |-> TRUE, elems |-> elems]
NotAList == [arr |-> FALSE, elems |-> <<>>]

Result(allowed, remaining, err) ==
  [allowed |-> allowed, remaining |-> remaining, err |-> err]

\* ------------------------------------------------- keyed variant: script
\* The steps of takeNScript.  Refill: tokens + elapsed * rate / 1000.0.
RefillNone(tokens, elapsed, rate) == tokens
Refill(tokens, elapsed, rate) == tokens + elapsed * rate

\* if newTokens > burst then newTokens = burst end
CapNone(newTokens, burst) == newTokens
Cap(newTokens, burst) ==
  IF newTokens > burst * Unit THEN burst * Unit ELSE newTokens

\* local allowed = newTokens >= n
EnoughStrict(newTokens, nArg) == newTokens > nArg * Unit
Enough(newTokens, nArg) == newTokens >= nArg * Unit

\* if allowed then newTokens = newTokens - n end
ConsumeNone(newTokens, nArg, allowed) == newTokens
Consume(newTokens, nArg, allowed) ==
  IF allowed THEN newTokens - nArg * Unit ELSE newTokens

\* redis.call('HMSET', key, 'last_refill_time', now, 'tokens', newTokens)
HMSetTokensOnly(rec, nowArg, newTokens) ==
  [rec EXCEPT !.hasTok = TRUE, !.tokens = newTokens]
HMSetKeepLast(rec, nowArg, newTokens) ==
  [rec EXCEPT !.hasTok = TRUE, !.tokens = newTokens, !.hasLast = TRUE,
              !.last = IF rec.hasLast THEN rec.last ELSE nowArg]
HMSetTruncated(rec, nowArg, newTokens) ==
  [rec EXCEPT !.hasTok = TRUE, !.tokens = Trunc(newTokens) * Unit,
              !.hasLast = TRUE, !.last = nowArg]
HMSet(rec, nowArg, newTokens) ==
  [rec EXCEPT !.hasTok = TRUE, !.tokens = newTokens,
              !.hasLast = TRUE, !.last = nowArg]

\* tonumber(current[2]) or burst: a missing record stands for a full bucket.
DefaultTokensZero(burst) == 0 * burst
DefaultTokens(burst) == burst * Unit

\* takeNScript.  rec is the hash at KEYS[1], t the store's time when the
\* script runs.  Returns the hash after the script, the reply, and the amount
\* available after refill and before consumption (the local newTokens after
\* the cap).
TakeNScript(rec, rate, burst, nowArg, ttl, nArg, t) ==
  LET lastRefillTime == IF rec.hasLast THEN rec.last ELSE nowArg
      tokens == IF rec.hasTok THEN rec.tokens ELSE DefaultTokens(burst)
      elapsed == nowArg - lastRefillTime
      capped == Cap(Refill(tokens, elapsed, rate), burst)
      allowed == Enough(capped, nArg)
      final == Consume(capped, nArg, allowed)
  IN [rec |-> Expire(HMSet(rec, nowArg, final), ttl, t),
      reply |-> Reply(<<LuaBoolean(allowed), LuaNumber(final)>>),
      refilled |-> capped]

\* Decoding of the reply in the keyed AllowN.  arr[0] and arr[1] are indexed
\* without a length check: a shorter list is a run-time panic.
DecodeKeyed(reply) ==
  IF ~reply.arr THEN Result(FALSE, 0, ErrResultType)
  ELSE IF Len(reply.elems) < 2 THEN Result(FALSE, 0, ErrPanic)
  ELSE LET a0 == reply.elems[1]
           a1 == reply.elems[2]
           allowed == CASE a0.t = "int64" -> a0.v > 0
                        [] a0.t = "bool" -> a0.v = 1
                        [] OTHER -> FALSE
       IN CASE a1.t = "nil" -> Result(allowed, 0, NoErr)
            [] a1.t = "int64" -> Result(allowed, a1.v, NoErr)
            [] a1.t = "float64" -> Result(allowed, Trunc(a1.v), NoErr)
            [] OTHER -> Result(FALSE, 0, ErrTokensType)

\* ------------------------------------------------ single variant: script
\* allowNScript, evaluated inline by AllowN.  The two string keys are written
\* and given their TTL one after the other inside the one script.
AllowNScript(rec, rate, capacity, nowArg, nArg, t) ==
  LET last == IF rec.hasLast THEN rec.last ELSE nowArg
      delta == (nowArg - last) * rate
      stored == IF rec.hasTok THEN rec.tokens ELSE capacity * Unit
      currentTokens == Min(capacity * Unit, stored + delta)
      allowed == IF nArg * Unit <= currentTokens THEN nArg ELSE 0
      remaining == IF allowed > 0 THEN currentTokens - allowed * Unit
                   ELSE currentTokens
  IN [rec |-> [hasTok |-> TRUE, tokens |-> remaining,
               tokExp |-> t + SingleTtlSec * Unit,
               hasLast |-> TRUE, last |-> nowArg,
               lastExp |-> t + SingleTtlSec * Unit],
      reply |-> Reply(<<RInt(allowed), LuaNumber(remaining)>>),
      refilled |-> currentTokens]

\* Decoding of the reply in the single-key AllowN; nArg is the requested count.
DecodeSingle(reply, nArg) ==
  IF ~reply.arr \/ Len(reply.elems) < 2 THEN Result(FALSE, 0, ErrResponse)
  ELSE LET a0 == reply.elems[1]
           a1 == reply.elems[2]
           known == a0.t \in {"nil", "int64", "bool"}
           allowed == CASE a0.t = "int64" -> a0.v
                        [] a0.t = "bool" -> IF a0.v = 1 THEN nArg ELSE 0
                        [] OTHER -> 0
       IN IF ~known THEN Result(FALSE, 0, ErrAllowedType)
          ELSE CASE a1.t = "nil" -> Result(allowed > 0, 0, NoErr)
                 [] a1.t = "int64" -> Result(allowed > 0, a1.v, NoErr)
                 [] a1.t = "float64" -> Result(allowed > 0, Trunc(a1.v), NoErr)
                 [] OTHER -> Result(allowed > 0, 0, NoErr)

\* The script a limiter of configuration c submits, and its decoding.
RunOn(c, rec, nowArg, nArg, t) ==
  IF c.variant = "keyed"
  THEN TakeNScript(rec, c.rate, c.burst, nowArg, TtlSeconds(c.expiration), nArg, t)
  ELSE AllowNScript(rec, c.rate, c.burst, nowArg, nArg, t)

Decode(c, reply, nArg) ==
  IF c.variant = "keyed" THEN DecodeKeyed(reply) ELSE DecodeSingle(reply, nArg)

\* ------------------------------------------ Lua numbers: IEEE 754 doubles
\* A Lua number of the scripts is a double.  A non-negative double is
\* [m |-> bits, e |-> exponent]: m holds the MantissaBits bits of the
\* significand, most significant first with m[1] = 1, and e is the power of
\* two of m[1]; zero is the empty significand.  Every operation computes the
\* exact result and rounds it to the nearest double, ties to even.
Zero == [m |-> << >>, e |-> 0]

Zeros(k) == [i \in 1..k |-> 0]
Upper(bits) == SubSeq(bits, 1, Len(bits) \div 2)
Lower(bits) == SubSeq(bits, Len(bits) \div 2 + 1, Len(bits))

\* The binary digits of a natural number, most significant first.
RECURSIVE Bin(_)
Bin(k) == IF k = 0 THEN << >> ELSE Append(Bin(k \div 2), k % 2)

\* The natural number of a sequence of binary digits.
RECURSIVE Val(_)
Val(bits) ==
  IF bits = << >> THEN 0
  ELSE 2 * Val(SubSeq(bits, 1, Len(bits) - 1)) + bits[Len(bits)]

\* a * k + b + carry for digit sequences a, b of one length, a small natural
\* number k and a carry into the last digit: the digits of that length and
\* the carry out of the first.  The lower half is computed first; an upper
\* half that gets no carry and has nothing added to it stays as it is.
RECURSIVE MulAddBits(_, _, _, _)
MulAddBits(a, k, b, carry) ==
  IF Len(a) = 0 THEN [bits |-> << >>, carry |-> carry]
  ELSE IF Len(a) = 1
       THEN LET v == a[1] * k + b[1] + carry
            IN [bits |-> <<v % 2>>, carry |-> v \div 2]
  ELSE LET lo == MulAddBits(Lower(a), k, Lower(b), carry)
           hi == MulAddBits(Upper(a), k, Upper(b), lo.carry)
       IN IF lo.carry = 0 /\ k = 1 /\ \A i \in 1..Len(b) \div 2 : b[i] = 0
          THEN [bits |-> Upper(a) \o lo.bits, carry |-> 0]
          ELSE [bits |-> hi.bits \o lo.bits, carry |-> hi.carry]

\* a + b, a - b (for a >= b) and a * k, with every digit of the result.
AddBits(a, b) ==
  LET s == MulAddBits(a, 1, b, 0) IN Bin(s.carry) \o s.bits
SubBits(a, b) ==
  MulAddBits(a, 1, [i \in 1..Len(b) |-> 1 - b[i]], 1).bits
MulBits(a, k) ==
  LET p == MulAddBits(a, k, Zeros(Len(a)), 0) IN Bin(p.carry) \o p.bits

\* The first count binary digits of r / b for r < b, and what is left of r.
RECURSIVE FracBits(_, _, _)
FracBits(r, b, count) ==
  IF count = 0 THEN [bits |-> << >>, r |-> r]
  ELSE IF count = 1
       THEN LET d == IF 2 * r >= b THEN 1 ELSE 0
            IN [bits |-> <<d>>, r |-> 2 * r - d * b]
  ELSE LET hi == FracBits(r, b, count \div 2)
           lo == FracBits(hi.r, b, count - count \div 2)
       IN [bits |-> hi.bits \o lo.bits, r |-> lo.r]

\* Rounding to the nearest double of the exact value whose digits are bits,
\* the first of them worth 2^e, followed by more non-zero digits iff sticky.
RoundBits(bits, e, sticky) ==
  IF \A i \in 1..Len(bits) : bits[i] = 0 THEN Zero
  ELSE LET first == CHOOSE i \in 1..Len(bits) :
                      bits[i] = 1 /\ \A j \in 1..i - 1 : bits[j] = 0
           sig == SubSeq(bits, first, Len(bits))
           top == e - (first - 1)
       IN IF Len(sig) <= MantissaBits
          THEN [m |-> sig \o Zeros(MantissaBits - Len(sig)), e |-> top]
          ELSE LET keep == SubSeq(sig, 1, MantissaBits)
                   half == sig[MantissaBits + 1]
                   more == sticky
                             \/ \E i \in MantissaBits + 2..Len(sig) : sig[i] = 1
                   up == half = 1 /\ (more \/ keep[MantissaBits] = 1)
                   next == MulAddBits(keep, 1, Zeros(MantissaBits), 1)
               IN IF ~up THEN [m |-> keep, e |-> top]
                  ELSE IF next.carry = 1
                       THEN [m |-> <<1>> \o Zeros(MantissaBits - 1),
                             e |-> top + 1]
                  ELSE [m |-> next.bits, e |-> top]

\* tonumber of an integer argument.
Number(k) == RoundBits(Bin(k), Len(Bin(k)) - 1, FALSE)

\* a / b of two integers a >= 0, b > 0 held as doubles.
DivNumber(a, b) ==
  LET whole == Bin(a \div b)
      frac == FracBits(a % b, b, 2 * MantissaBits)
  IN RoundBits(whole \o frac.bits, Len(whole) - 1, frac.r # 0)

\* x * k of a double and an integer k >= 0 held as a double.
MulNumber(x, k) ==
  LET p == MulBits(x.m, k)
  IN RoundBits(p, x.e + Len(p) - Len(x.m), FALSE)

\* The digits of x and y over one range of powers of two.
Aligned(x, y) ==
  LET hi == IF x.e > y.e THEN x.e ELSE y.e
      lo == IF x.e < y.e THEN x.e ELSE y.e
  IN [x |-> Zeros(hi - x.e) \o x.m \o Zeros(x.e - lo),
      y |-> Zeros(hi - y.e) \o y.m \o Zeros(y.e - lo),
      e |-> hi]

\* x + y.
AddNumber(x, y) ==
  IF x = Zero THEN y
  ELSE IF y = Zero THEN x
  ELSE LET ab == Aligned(x, y)
           sum == AddBits(ab.x, ab.y)
       IN RoundBits(sum, ab.e + Len(sum) - Len(ab.x), FALSE)

\* x < y.
LessNumber(x, y) ==
  IF y = Zero THEN FALSE
  ELSE IF x = Zero THEN TRUE
  ELSE IF x.e # y.e THEN x.e < y.e
  ELSE \E i \in 1..MantissaBits :
         x.m[i] < y.m[i] /\ \A j \in 1..i - 1 : x.m[j] = y.m[j]

\* x - y for x >= y.
SubNumber(x, y) ==
  IF y = Zero THEN x
  ELSE LET ab == Aligned(x, y)
       IN RoundBits(SubBits(ab.x, ab.y), ab.e, FALSE)

\* The integer part of a double: the integer reply Redis makes of it.
Floor(x) == IF x = Zero \/ x.e < 0 THEN 0 ELSE Val(SubSeq(x.m, 1, x.e + 1))

\* The record of a key whose amounts are doubles, and the key without one.
NoNumberRecord == [has |-> FALSE, last |-> 0, tokens |-> Zero]

\* takeNScript in the arithmetic of Lua:
\* newTokens = tokens + elapsed * rate / 1000.0.  HMSET writes the number
\* with 17 significant digits, which tonumber reads back as the same double.
TakeNScriptNumber(rec, rate, burst, nowArg, nArg) ==
  LET lastRefillTime == IF rec.has THEN rec.last ELSE nowArg
      tokens == IF rec.has THEN rec.tokens ELSE Number(burst)
      elapsed == nowArg - lastRefillTime
      newTokens == AddNumber(tokens, DivNumber(elapsed * rate, Unit))
      capped == IF LessNumber(Number(burst), newTokens) THEN Number(burst)
                ELSE newTokens
      allowed == ~LessNumber(capped, Number(nArg))
      final == IF allowed THEN SubNumber(capped, Number(nArg)) ELSE capped
  IN [rec |-> [has |-> TRUE, last |-> nowArg, tokens |-> final],
      reply |-> Reply(<<LuaBoolean(allowed), RInt(Floor(final))>>)]

\* allowNScript in the arithmetic of Lua: delta = (now - last) / 1000 * rate.
AllowNScriptNumber(rec, rate, capacity, nowArg, nArg) ==
  LET last == IF rec.has THEN rec.last ELSE nowArg
      delta == MulNumber(DivNumber(nowArg - last, Unit), rate)
      stored == IF rec.has THEN rec.tokens ELSE Number(capacity)
      sum == AddNumber(stored, delta)
      currentTokens == IF LessNumber(Number(capacity), sum)
                       THEN Number(capacity) ELSE sum
      allowed == IF ~LessNumber(currentTokens, Number(nArg)) THEN nArg ELSE 0
      remaining == IF allowed > 0
                   THEN SubNumber(currentTokens, Number(allowed))
                   ELSE currentTokens
  IN [rec |-> [has |-> TRUE, last |-> nowArg, tokens |-> remaining],
      reply |-> Reply(<<RInt(allowed), RInt(Floor(remaining))>>)]

\* The limiter's early return for n <= 0, before any round trip.
EarlyReturn(c) ==
  IF c.variant = "keyed" THEN Result(TRUE, 0, NoErr)
  ELSE Result(FALSE, 0, ErrTokens)

\* The return on a failed round trip: if err != nil { return false, 0, err }.
ErrorReturnAllowed(err) == Result(TRUE, 0, err)
ErrorReturn(err) == Result(FALSE, 0, err)

\* Whether AllowN submits the script again after `done` round trips of the
\* call have ended in an error: it returns the error at once.
RetryOnErrorOnce(done) == done < 2
RetryOnError(done) == FALSE

\* redisKey := fmt.Sprintf("ratelimit:token:bucket:%s", key): the hash a
\* key's calls of the keyed limiter read and write.
RedisKey(k) == "ratelimit:token:bucket:" \o k

\* The name under which the tokens of key k are kept: the field 'tokens' of
\* the hash (keyed), the string key itself (single).
TokensName(v, k) ==
  IF v = "keyed" THEN RedisKey(k) \o " tokens" ELSE k

\* The name under which the last refill time of key k is kept: the field
\* 'last_refill_time' of the hash (keyed), key .. ":last_refill" (single).
LastRefillName(v, k) ==
  IF v = "keyed" THEN RedisKey(k) \o " last_refill_time"
  ELSE k \o ":last_refill"

\* Every name the limiters of either variant use for the keys.
Names ==
  {TokensName(v, k) : v \in Variants, k \in Keys}
    \cup {LastRefillName(v, k) : v \in Variants, k \in Keys}

\* What the keyspace holds under a name: the number val / scale and the time
\* at which it expires.  Token amounts are written in thousandths (scale
\* Unit), times in ms (scale 1).
EmptyCell == [has |-> FALSE, val |-> 0, scale |-> 1, exp |-> 0]

\* The record of key k as a limiter of variant v reads it from keyspace r:
\* tonumber() of whatever number is under the two names.
RecordAt(r, v, k) ==
  LET t == r[TokensName(v, k)]
      l == r[LastRefillName(v, k)]
  IN [hasTok |-> t.has,
      tokens |-> IF t.scale = Unit THEN t.val ELSE t.val * Unit,
      tokExp |-> t.exp,
      hasLast |-> l.has,
      last |-> IF l.scale = 1 THEN l.val ELSE l.val \div Unit,
      lastExp |-> l.exp]

\* The keyspace after a script wrote record rec for key k.
WriteRecord(r, v, k, rec) ==
  [x \in Names |->
     IF x = LastRefillName(v, k)
     THEN IF rec.hasLast
          THEN [has |-> TRUE, val |-> rec.last, scale |-> 1, exp |-> rec.lastExp]
          ELSE EmptyCell
     ELSE IF x = TokensName(v, k)
     THEN IF rec.hasTok
          THEN [has |-> TRUE, val |-> rec.tokens, scale |-> Unit,
                exp |-> rec.tokExp]
          ELSE EmptyCell
     ELSE r[x]]

\* What Redis keeps under a name at time t.
SweepCell(cell, t) == IF cell.has /\ cell.exp > t THEN cell ELSE EmptyCell

\* The record of each key as the limiters read it.
store == [k \in Keys |-> RecordAt(redis, cfg.variant, k)]

\* The guard of that early return: if n <= 0.
NegativeOnly(nArg) == nArg < 0
NonPositive(nArg) == nArg <= 0

\* The TTL a record written by a limiter of configuration c lives for, in ms.
TtlMs(c) ==
  IF c.variant = "keyed" THEN TtlSeconds(c.expiration) * Unit
  ELSE SingleTtlSec * Unit

Absent(rec) == ~rec.hasTok /\ ~rec.hasLast

\* The tokens a record holds: a missing record stands for a full bucket.
Holding(c, rec) == IF rec.hasTok THEN rec.tokens ELSE c.burst * Unit

\* ------------------------------------------------------------------ state
\* The configurations of the limiters: the rate and expiration the tests
\* construct them with (an Expiration of whole seconds, so that the script's
\* ttl argument is positive), for each of the two variants.
Configs ==
  {[variant |-> v, rate |-> Rate, burst |-> Burst, expiration |-> ExpirationMs] :
     v \in Variants}

NoResult == Result(FALSE, 0, NoErr)
NoObs == [called |-> FALSE, key |-> "a", n |-> 0, ran |-> FALSE,
          fresh |-> FALSE, elapsed |-> 0, preTokens |-> 0, refilled |-> 0,
          stored |-> 0, burstIdx |-> 0, tries |-> 0, reborn |-> FALSE,
          replied |-> FALSE]
NoWire == NotAList

\* The keys the callers of a specification use.
OneKey == {"a"}

\* ---------------------------------------------------------- MemoryCache
Routines == {"g1", "g2"}
CacheKeys == {"k1", "k2"}

\* Go values handed to Set, by type and printed form, and the types of the
\* dest handed to Get.
GoString(x) == [t |-> "string", v |-> x]
GoInt(i) == [t |-> "int", v |-> i]
GoFloat(f) == [t |-> "float64", v |-> f]
GoNaN == GoFloat("NaN")
GoNil == [t |-> "nil", v |-> ""]
CacheValues == {GoString("x"), GoInt("1"), GoNaN}
DestTypes == {"string", "int", "interface"}

\* Expirations handed to Set: negative, none, and one unit of time.
CacheTtls == {-1, 0, 1}

NoCacheErr == "nil"
ErrKeyNotFound == "key not found"
ErrContext == "context canceled"
ErrMarshal == "json: unsupported value"
ErrUnmarshal == "json: cannot unmarshal"

\* json.Marshal(value): the JSON text of a value.  A string becomes a JSON
\* string, an int and a float64 the same JSON number; NaN has no JSON text.
Marshal(value) ==
  CASE value.t = "string" -> [err |-> NoCacheErr, kind |-> "string", text |-> value.v]
    [] value.t = "float64" /\ value = GoNaN ->
         [err |-> ErrMarshal, kind |-> "none", text |-> ""]
    [] OTHER -> [err |-> NoCacheErr, kind |-> "number", text |-> value.v]

\* json.Unmarshal(data, dest) for a dest of type destType: the value dest
\* holds afterwards.  A JSON number fits an int, a float64 and an interface
\* (as a float64), a JSON string a string and an interface.
UnmarshalAny(data, destType) ==
  CASE data.kind = "string" ->
         [err |-> NoCacheErr, value |-> GoString(data.text)]
    [] OTHER -> [err |-> NoCacheErr, value |-> GoFloat(data.text)]
Unmarshal(data, destType) ==
  CASE data.kind = "string" /\ destType \in {"string", "interface"} ->
         [err |-> NoCacheErr, value |-> GoString(data.text)]
    [] data.kind = "number" /\ destType = "int" ->
         [err |-> NoCacheErr, value |-> GoInt(data.text)]
    [] data.kind = "number" /\ destType \in {"float64", "interface"} ->
         [err |-> NoCacheErr, value |-> GoFloat(data.text)]
    [] OTHER -> [err |-> ErrUnmarshal, value |-> GoNil]

\* A memoryItem; zero says that its expiration is the zero time, and orig
\* remembers the value that was handed to Set.
NoData == [err |-> NoCacheErr, kind |-> "none", text |-> ""]
NoItem == [has |-> FALSE, value |-> NoData, zero |-> TRUE, expiration |-> 0,
           orig |-> GoNil]
Item(data, zero, expiration, orig) ==
  [has |-> TRUE, value |-> data, zero |-> zero, expiration |-> expiration,
   orig |-> orig]

\* !item.expiration.IsZero() && time.Now().After(item.expiration)
ItemExpiredNever(item, t) == FALSE
ItemExpired(item, t) == ~item.zero /\ t > item.expiration

\* delete(m.items, key)
DeleteItem(m, k) == [m EXCEPT ![k] = NoItem]

\* make(map[string]*memoryItem)
MakeItems == [k \in CacheKeys |-> NoItem]

\* len(m.items)
Len_items(m) == Cardinality({k \in CacheKeys : m[k].has})

NoCacheResult ==
  [op |-> "none", key |-> "k1", err |-> NoCacheErr, exists |-> FALSE,
   value |-> GoNil, dest |-> "string", size |-> 0, sets |-> 0,
   found |-> FALSE, live |-> FALSE, orig |-> GoNil]

CacheStart ==
  /\ items = MakeItems
  /\ ctime = 0
  /\ cpc = [g \in Routines |-> "idle"]
  /\ ckey = [g \in Routines |-> "k1"]
  /\ carg = [g \in Routines |-> GoNil]
  /\ csnap = [g \in Routines |-> NoItem]
  /\ cexp = [g \in Routines |-> 0]
  /\ pending = {}
  /\ cres = NoCacheResult
  /\ how = [k \in CacheKeys |-> "none"]

\* No goroutine runs a test function.
NoProgram == [g \in Routines |-> << >>]

CacheInit == CacheStart /\ todo = NoProgram

\* ---------------------------------------------------- goroutine pool: data
\* The tasks the submitting goroutine hands to the pool, in order.
Tasks == 1..MaxTasks

\* NewPool and NewFuncPool: a size <= 0 is replaced by the default.
DefaultPoolSize == 50
PoolSize(size) == IF size <= 0 THEN DefaultPoolSize ELSE size

\* The sizes and the ants options pools are made with.
GivenSizes == {0, 1, 2}
PoolConfigs ==
  [kind : {"pool", "func"}, size : {PoolSize(z) : z \in GivenSizes},
   nonblocking : BOOLEAN]

PoolNoErr == "nil"
ErrPoolClosed == "this pool has been closed"
ErrPoolOverload == "too many goroutines blocked on submit or Nonblocking is set"

\* The tasks that occupy a worker of the ants pool.
Running(st) == Cardinality({t \in Tasks : st[t] \in {"running", "ended"}})

\* p.pool.Submit / p.pool.Invoke of the ants pool: the error it returns, nil
\* when a worker takes the task, or "block" while the caller has to wait
\* for a free worker.
AntsSubmit(c, released, st) ==
  IF released THEN ErrPoolClosed
  ELSE IF Running(st) < c.size THEN PoolNoErr
  ELSE IF c.nonblocking THEN ErrPoolOverload
  ELSE "block"

\* The deferred recover of the wrapper: a panic of the task is appended to
\* errList under the mutex.
RecoverNothing(errs, t, panicked) == errs
Recover(errs, t, panicked) == IF panicked THEN Append(errs, t) ELSE errs

\* A pool that has been given no task.
PoolStart ==
  /\ pwg = 0
  /\ pstate = [t \in Tasks |-> "new"]
  /\ ppanic = [t \in Tasks |-> FALSE]
  /\ perrs = << >>
  /\ psub = "idle"
  /\ pnext = 1
  /\ preleased = FALSE
  /\ pret = PoolNoErr
  /\ plist = << >>

\* NewPool(0).
PoolInit ==
  /\ pcfg = [kind |-> "pool", size |-> PoolSize(0), nonblocking |-> FALSE]
  /\ PoolStart

\* ------------------------------------------------------- HTTP client: data
\* Config.RetryCount of the clients.
RetryCounts == -1..MaxRetry

\* var retryableStatusCodes.
retryableStatusCodesNone == {}
retryableStatusCodes == {408, 425, 429, 500, 502, 503, 504}

\* The status codes the server answers with.
Statuses == {200, 404, 429, 500}

\* The errors httpClient.Do returns.  Each is a *url.Error, which has the
\* methods of net.Error.
ClientErrors == {"timeout", "connection reset"}

\* isRetryableError: errors.As(err, &netErr), true for a timeout and for every
\* other net.Error.
isRetryableError(err) == err \in ClientErrors

HttpNoErr == "nil"
ErrRequestFailed == "request failed"
ErrReadRequestBody == "failed to read request body"
ErrReadResponseBody == "failed to read response body"

\* A request without body (Get, Post(url, nil, ...)), one made by Post from
\* the bytes, and one whose Body fails to be read.
NoBody == [kind |-> "nil", rest |-> << >>, length |-> 0]
BytesBody(b) == [kind |-> "bytes", rest |-> b, length |-> Len(b)]
BrokenBody == [kind |-> "broken", rest |-> << >>, length |-> 0]
Requests == {NoBody, BytesBody(<<1, 2>>), BrokenBody}

\* How a call of httpClient.Do ended: a status code or an error.
Outcome(status, err) == [status |-> status, err |-> err]

\* Do's return values: the response (its status code, 0 for nil) and the
\* error.
DoResult(resp, err) == [resp |-> resp, err |-> err]

\* A client no request has been given to.
HttpStart ==
  /\ hpc = "idle"
  /\ hretry = 0
  /\ hreq = NoBody
  /\ hlog = << >>
  /\ hlastErr = HttpNoErr
  /\ hlastResp = 0
  /\ hres = DoResult(0, HttpNoErr)

\* NewClient(nil): RetryCount 0.
HttpInit ==
  /\ hcfg = [retryCount |-> 0]
  /\ HttpStart

\* --------------------------------------- both variants side by side: data
\* Neither variant has a record of the key and no call has been made.
BothInit ==
  both = [keyed |-> NoNumberRecord, single |-> NoNumberRecord,
          resKeyed |-> NoResult, resSingle |-> NoResult,
          now |-> 0, calls |-> 0]

\* ------------------------------------------------------- limiter: Init
\* No window of calls is being measured.
NoWindow == [open |-> FALSE, started |-> FALSE, first |-> 0, last |-> 0,
             granted |-> 0, ordered |-> TRUE]

\* The most tokens counted in a window: one more than the largest amount a
\* bucket can give out in the time the clock advances.
GrantCap(c) == c.burst + (c.rate * MaxTicks * Max(TickSteps)) \div Unit + 1

\* The window after the store admitted a call with the given `now` that was
\* granted the given number of tokens.  A window whose `now` values went
\* backwards is not measured any further.
Counted(w, c, nowArg, granted) ==
  IF ~w.open \/ ~w.ordered THEN w
  ELSE IF w.started /\ nowArg < w.last
  THEN [NoWindow EXCEPT !.open = TRUE, !.ordered = FALSE]
  ELSE [w EXCEPT !.started = TRUE,
                 !.first = IF w.started THEN @ ELSE nowArg,
                 !.last = nowArg,
                 !.granted = Min(@ + granted, GrantCap(c))]

\* The store is empty and no call is in flight.
LimiterStart ==
  /\ clock = 0
  /\ ticks = 0
  /\ redis = [x \in Names |-> EmptyCell]
  /\ pc = [c \in Callers |-> "idle"]
  /\ key = [c \in Callers |-> "a"]
  /\ n = [c \in Callers |-> 0]
  /\ now = [c \in Callers |-> 0]
  /\ tries = [c \in Callers |-> 0]
  /\ res = NoResult
  /\ obs = NoObs
  /\ wire = NoWire
  /\ burstLen = [k \in Keys |-> 0]
  /\ epochAvail = [k \in Keys |-> 0]
  /\ epochGranted = [k \in Keys |-> 0]
  /\ expired = [k \in Keys |-> FALSE]
  /\ win = NoWindow

Init ==
  /\ cfg \in Configs
  /\ LimiterStart
  /\ CacheInit
  /\ PoolInit
  /\ HttpInit
  /\ BothInit

\* AllowN(ctx, k, m) up to the round trip: the early return for n <= 0, or
\* the sampling of `now`.  Allow(ctx, k) is AllowN(ctx, k, 1).
AllowNEnter(c, k, m) ==
  /\ pc[c] = "idle"
  /\ IF NonPositive(m)
     THEN /\ res' = EarlyReturn(cfg)
          /\ obs' = [NoObs EXCEPT !.called = TRUE, !.key = k, !.n = m,
                       !.fresh = Absent(store[k]),
                       !.preTokens = Holding(cfg, store[k]),
                       !.stored = Holding(cfg, store[k])]
          /\ wire' = NoWire
          /\ UNCHANGED <<pc, key, n, now>>
     ELSE /\ pc' = [pc EXCEPT ![c] = "run"]
          /\ key' = [key EXCEPT ![c] = k]
          /\ n' = [n EXCEPT ![c] = m]
          /\ now' = [now EXCEPT ![c] = clock]
          /\ UNCHANGED <<res, obs, wire>>
  /\ UNCHANGED <<nonLimVars, cfg, clock, ticks, redis, tries, burstLen, epochAvail,
                 epochGranted, expired, win>>

\* The effect on the store of the script of caller c running as one step;
\* out is what the script computes on the record it finds.
StoreExec(c, out, allowed) ==
  LET k == key[c]
      rec == store[k]
      fresh == Absent(rec)
      zero == ~fresh /\ now[c] = rec.last
      idx == IF n[c] = 1 /\ fresh THEN 1
             ELSE IF n[c] = 1 /\ burstLen[k] >= 1 /\ zero
                  THEN Min(burstLen[k] + 1, cfg.burst + 2)
                  ELSE -1
      granted == IF allowed THEN n[c] ELSE 0
      gone == Absent(out.rec)
  IN /\ redis' = WriteRecord(redis, cfg.variant, k, out.rec)
     /\ burstLen' = [burstLen EXCEPT ![k] = IF gone THEN 0 ELSE idx]
     /\ epochAvail' = [epochAvail EXCEPT ![k] =
                         IF gone THEN 0
                         ELSE IF zero THEN @ ELSE out.refilled]
     /\ epochGranted' = [epochGranted EXCEPT ![k] =
                           IF gone THEN 0
                           ELSE IF zero THEN Min(@ + granted, 2 * cfg.burst)
                           ELSE granted]
     /\ expired' = [expired EXCEPT ![k] = IF gone THEN @ ELSE FALSE]
     /\ win' = IF k \in OneKey THEN Counted(win, cfg, now[c], granted) ELSE win

\* What is recorded of a call of caller c whose script ran with outcome out.
RanObs(c, out) ==
  LET k == key[c]
      rec == store[k]
      fresh == Absent(rec)
      zero == ~fresh /\ now[c] = rec.last
  IN [called |-> TRUE, key |-> key[c], n |-> n[c], ran |-> TRUE,
      fresh |-> fresh,
      elapsed |-> IF rec.hasLast THEN now[c] - rec.last ELSE 0,
      preTokens |-> Holding(cfg, rec),
      refilled |-> out.refilled,
      stored |-> Holding(cfg, out.rec),
      burstIdx |-> IF n[c] = 1 /\ fresh THEN 1
                   ELSE IF n[c] = 1 /\ burstLen[k] >= 1 /\ zero
                        THEN Min(burstLen[k] + 1, cfg.burst + 2)
                        ELSE -1,
      tries |-> tries[c] + 1,
      reborn |-> fresh /\ expired[k],
      replied |-> FALSE]

\* What is recorded of a call of caller c whose script did not run.
NotRanObs(c) ==
  LET rec == store[key[c]]
  IN [NoObs EXCEPT !.called = TRUE, !.key = key[c], !.n = n[c],
                   !.fresh = Absent(rec),
                   !.preTokens = Holding(cfg, rec),
                   !.refilled = Holding(cfg, rec),
                   !.stored = Holding(cfg, rec),
                   !.tries = tries[c] + 1]

\* AllowN of caller c returns r.
Return(c, r, o, w) ==
  /\ res' = r
  /\ obs' = o
  /\ wire' = w
  /\ pc' = [pc EXCEPT ![c] = "idle"]
  /\ key' = [key EXCEPT ![c] = "a"]
  /\ n' = [n EXCEPT ![c] = 0]
  /\ now' = [now EXCEPT ![c] = 0]
  /\ tries' = [tries EXCEPT ![c] = 0]

\* AllowN of caller c submits the script once more.
Resubmit(c) ==
  /\ tries' = [tries EXCEPT ![c] = @ + 1]
  /\ UNCHANGED <<res, obs, wire, pc, key, n, now>>

\* The store admits the caller's script, runs it as one step, and AllowN
\* decodes the reply and returns.
ScriptRun(c) ==
  /\ pc[c] = "run"
  /\ LET out == RunOn(cfg, store[key[c]], now[c], n[c], clock)
         r == Decode(cfg, out.reply, n[c])
     IN /\ StoreExec(c, out, r.allowed)
        /\ Return(c, r, [RanObs(c, out) EXCEPT !.replied = TRUE], out.reply)
  /\ UNCHANGED <<nonLimVars, cfg, clock, ticks>>

\* The round trip fails before the store admits the script (the store is
\* unreachable, the context is cancelled): Run returns an error.
StoreUnreachable(c) ==
  /\ pc[c] = "run"
  /\ IF RetryOnError(tries[c] + 1)
     THEN Resubmit(c)
     ELSE Return(c, ErrorReturn(ErrStore), NotRanObs(c), NoWire)
  /\ UNCHANGED <<nonLimVars, cfg, clock, ticks, redis, burstLen, epochAvail, epochGranted,
                 expired, win>>

\* The store runs the script but its reply does not reach the caller (a read
\* timeout, a connection reset): Run returns an error.
ReplyLost(c) ==
  /\ pc[c] = "run"
  /\ LET out == RunOn(cfg, store[key[c]], now[c], n[c], clock)
     IN /\ StoreExec(c, out, Decode(cfg, out.reply, n[c]).allowed)
        /\ IF RetryOnError(tries[c] + 1)
           THEN Resubmit(c)
           ELSE Return(c, ErrorReturn(ErrStore), RanObs(c, out), NoWire)
  /\ UNCHANGED <<nonLimVars, cfg, clock, ticks>>

\* The set of reply elements a store can send.
WireElems == {RNil, RInt(0), RInt(1), RFloat(1500), RBool(TRUE), RStr}

\* The replies a store can send for a script call: something that is not a
\* list, and lists of up to three elements.
WireReplies ==
  {NotAList} \cup {Reply(<<>>)}
    \cup {Reply(<<x>>) : x \in WireElems}
    \cup {Reply(<<x, y>>) : x \in WireElems, y \in WireElems}
    \cup {Reply(<<RInt(1), RInt(1), z>>) : z \in {RNil, RInt(0)}}

\* The store answers the script call of caller c with reply w (a script of
\* another version, a proxy, a server of another dialect), and AllowN decodes
\* it and returns.
ReplyArrives(c, w) ==
  /\ pc[c] = "run"
  /\ Return(c, Decode(cfg, w, n[c]), [NotRanObs(c) EXCEPT !.replied = TRUE], w)
  /\ UNCHANGED <<nonLimVars, cfg, clock, ticks, redis, burstLen, epochAvail, epochGranted,
                 expired, win>>

\* Nothing is left at time t under the two names of key k.
Gone(k, t) ==
  /\ ~SweepCell(redis[TokensName(cfg.variant, k)], t).has
  /\ ~SweepCell(redis[LastRefillName(cfg.variant, k)], t).has

\* The number under the tokens name of key k is below the capacity.
Depleted(k) ==
  LET cell == redis[TokensName(cfg.variant, k)]
  IN cell.has /\ cell.val < cfg.burst * cell.scale

\* Time passes to t: what is under a name whose TTL ran out is removed.
Advance(t) ==
  /\ clock' = t
  /\ redis' = [x \in Names |-> SweepCell(redis[x], t)]
  /\ burstLen' = [k \in Keys |-> IF Gone(k, t) THEN 0 ELSE burstLen[k]]
  /\ epochAvail' = [k \in Keys |-> IF Gone(k, t) THEN 0 ELSE epochAvail[k]]
  /\ epochGranted' = [k \in Keys |-> IF Gone(k, t) THEN 0 ELSE epochGranted[k]]
  /\ expired' = [k \in Keys |->
                   \/ expired[k]
                   \/ Depleted(k) /\ Gone(k, t)]
  /\ UNCHANGED <<nonLimVars, cfg, pc, key, n, now, tries, res, obs, wire, win>>

\* A short delay, possibly while calls are in flight.
Tick(d) ==
  /\ ticks < MaxTicks
  /\ ticks' = ticks + 1
  /\ Advance(clock + d)

\* An idle period of one whole TTL during which no call is in flight.
Idle ==
  /\ ticks < MaxTicks
  /\ \A c \in Callers : pc[c] = "idle"
  /\ ticks' = ticks + 1
  /\ Advance(clock + TtlMs(cfg))

Next ==
  \/ \E c \in Callers, k \in OneKey, m \in NRange : AllowNEnter(c, k, m)
  \/ \E c \in Callers : ScriptRun(c)
  \/ \E d \in TickSteps : Tick(d)
  \/ Idle

Spec == Init /\ [][Next]_vars

\* The caller of the specifications with one caller.
Solo == {"c1"}

\* ------------------------------------------------- limiter: rate of grants
\* An observer starts to count the tokens granted on key "a".
Measure ==
  /\ ~win.open
  /\ win' = [NoWindow EXCEPT !.open = TRUE]
  /\ UNCHANGED <<nonLimVars, cfg, clock, ticks, redis, pc, key, n, now, tries,
                 res, obs, wire, burstLen, epochAvail, epochGranted, expired>>

\* The limiters of both variants with a whole number of seconds as
\* Expiration, and the keyed limiter with half a second.
RateConfigs ==
  Configs \cup {[variant |-> "keyed", rate |-> Rate, burst |-> Burst,
                 expiration |-> 500]}

InitRate ==
  /\ cfg \in RateConfigs
  /\ LimiterStart
  /\ CacheInit
  /\ PoolInit
  /\ HttpInit
  /\ BothInit

NextRate ==
  \/ \E c \in Callers, k \in OneKey, m \in 1..Burst : AllowNEnter(c, k, m)
  \/ \E c \in Callers : ScriptRun(c)
  \/ \E d \in TickSteps : Tick(d)
  \/ Measure

SpecRate == InitRate /\ [][NextRate]_vars

\* NewDefaultConfig(): Rate 10, Burst 20, Expiration one hour.
NewDefaultConfig ==
  [variant |-> "keyed", rate |-> Rate, burst |-> DefaultBurst,
   expiration |-> DefaultExpirationMs]

\* A nil *Config.
NilConfig == [variant |-> "keyed", rate |-> 0, burst |-> 0, expiration |-> -1]

\* NewRedisBucket(client, config): a nil config is replaced by the default
\* one; the fields of a given config are taken as they are.
NewRedisBucket(config) ==
  IF config = NilConfig THEN NewDefaultConfig ELSE config

\* Expirations a Config can carry: unset, below one second, a second and a
\* half, and whole seconds.
Expirations == {0, 500, 1500, ExpirationMs}

\* The configs handed to the constructor of the keyed limiter.
GivenConfigs ==
  {NilConfig} \cup
  {[variant |-> "keyed", rate |-> Rate, burst |-> Burst, expiration |-> e] :
     e \in Expirations}

\* The limiters of any expiration, used by one caller.
InitTtl ==
  /\ cfg \in {NewRedisBucket(g) : g \in GivenConfigs} \cup Configs
  /\ LimiterStart
  /\ CacheInit
  /\ PoolInit
  /\ HttpInit
  /\ BothInit

NextTtl ==
  \/ \E c \in Solo, k \in OneKey, m \in NRange : AllowNEnter(c, k, m)
  \/ \E c \in Solo : ScriptRun(c)
  \/ \E d \in TickSteps : Tick(d)
  \/ Idle

SpecTtl == InitTtl /\ [][NextTtl]_vars

\* The limiter used by one caller against a store whose round trips can fail.

NextFail ==
  \/ \E c \in Solo, k \in OneKey, m \in NRange : AllowNEnter(c, k, m)
  \/ \E c \in Solo : ScriptRun(c)
  \/ \E c \in Solo : StoreUnreachable(c)
  \/ \E c \in Solo : ReplyLost(c)
  \/ \E d \in TickSteps : Tick(d)
  \/ Idle

SpecFail == Init /\ [][NextFail]_vars

\* Allow used by one caller on every key, within one TTL.
NextKeys ==
  \/ \E c \in Solo, k \in Keys : AllowNEnter(c, k, 1)
  \/ \E c \in Solo : ScriptRun(c)
  \/ \E d \in TickSteps : Tick(d)

SpecKeys == Init /\ [][NextKeys]_vars

\* The limiter used by one caller against a store that answers with any reply.
NextDecode ==
  \/ \E c \in Solo, k \in OneKey, m \in NRange : AllowNEnter(c, k, m)
  \/ \E c \in Solo : ScriptRun(c)
  \/ \E c \in Solo, w \in WireReplies : ReplyArrives(c, w)

SpecDecode == Init /\ [][NextDecode]_vars

\* --------------------------------------------- MemoryCache: operations
\* The goroutine's operation returns: its locals are gone.
CacheReturn(g, r) ==
  /\ cres' = r
  /\ cpc' = [cpc EXCEPT ![g] = "idle"]
  /\ ckey' = [ckey EXCEPT ![g] = "k1"]
  /\ carg' = [carg EXCEPT ![g] = GoNil]
  /\ csnap' = [csnap EXCEPT ![g] = NoItem]
  /\ cexp' = [cexp EXCEPT ![g] = 0]
  /\ todo' = [todo EXCEPT ![g] = IF @ = << >> THEN @ ELSE Tail(@)]

\* The number of keys whose latest change is a Set.
SetKeys == Cardinality({k \in CacheKeys : how[k] = "set"})

\* The entry exists and time t is not after the expiry its Set gave it.
Live(item, t) == item.has /\ (item.zero \/ t <= item.expiration)

\* The context check every operation starts with: ctx.Err(), non-nil when the
\* context is cancelled.
CtxErrIgnored(cancelled) == NoCacheErr
CtxErr(cancelled) == IF cancelled THEN ErrContext ELSE NoCacheErr

\* Set up to the lock: the context check, json.Marshal and the expiry.
Set(g, k, value, expiration, cancelled) ==
  /\ cpc[g] = "idle"
  /\ IF CtxErr(cancelled) # NoCacheErr
     THEN /\ CacheReturn(g, [NoCacheResult EXCEPT !.op = "Set", !.key = k,
                                                  !.err = CtxErr(cancelled)])
          /\ UNCHANGED <<items, how>>
     ELSE IF Marshal(value).err # NoCacheErr
     THEN /\ CacheReturn(g, [NoCacheResult EXCEPT !.op = "Set", !.key = k,
                                                  !.err = Marshal(value).err])
          /\ UNCHANGED <<items, how>>
     ELSE /\ cpc' = [cpc EXCEPT ![g] = "store"]
          /\ ckey' = [ckey EXCEPT ![g] = k]
          /\ carg' = [carg EXCEPT ![g] = value]
          /\ cexp' = [cexp EXCEPT ![g] =
                        IF expiration > 0 THEN ctime + expiration ELSE 0]
          /\ csnap' = [csnap EXCEPT ![g] =
                         Item(Marshal(value), ~(expiration > 0), 0, value)]
          /\ UNCHANGED <<items, how, cres, todo>>
  /\ UNCHANGED <<nonCacheVars, ctime, pending>>

\* Set under the lock: m.items[key] = &memoryItem{...}, and the return.
SetStore(g) ==
  /\ cpc[g] = "store"
  /\ items' = [items EXCEPT ![ckey[g]] =
                 Item(csnap[g].value, csnap[g].zero, cexp[g], csnap[g].orig)]
  /\ how' = [how EXCEPT ![ckey[g]] = "set"]
  /\ CacheReturn(g, [NoCacheResult EXCEPT !.op = "Set", !.key = ckey[g],
                                          !.orig = csnap[g].orig])
  /\ UNCHANGED <<nonCacheVars, ctime, pending>>

\* Get and Exists up to the end of the read lock: the context check and the
\* lookup of the entry.  destType is the type of Get's dest.
Lookup(g, op, k, destType, cancelled) ==
  /\ cpc[g] = "idle"
  /\ IF CtxErr(cancelled) # NoCacheErr
     THEN CacheReturn(g, [NoCacheResult EXCEPT !.op = op, !.key = k,
                                               !.dest = destType,
                                               !.err = CtxErr(cancelled)])
     ELSE /\ cpc' = [cpc EXCEPT ![g] = op]
          /\ ckey' = [ckey EXCEPT ![g] = k]
          /\ carg' = [carg EXCEPT ![g] = [t |-> destType, v |-> ""]]
          /\ csnap' = [csnap EXCEPT ![g] = items[k]]
          /\ UNCHANGED <<cexp, cres, todo>>
  /\ UNCHANGED <<nonCacheVars, items, ctime, pending, how>>

\* Get after the read lock: not found, expired (the asynchronous Delete is
\* started), or json.Unmarshal into dest.
Get(g) ==
  /\ cpc[g] = "Get"
  /\ LET item == csnap[g]
         base == [NoCacheResult EXCEPT !.op = "Get", !.key = ckey[g],
                                       !.dest = carg[g].t, !.found = item.has,
                                       !.live = Live(item, ctime),
                                       !.orig = item.orig]
         out == Unmarshal(item.value, carg[g].t)
     IN IF ~item.has
        THEN /\ CacheReturn(g, [base EXCEPT !.err = ErrKeyNotFound])
             /\ UNCHANGED pending
        ELSE IF ItemExpired(item, ctime)
        THEN /\ pending' = pending \cup {ckey[g]}
             /\ CacheReturn(g, [base EXCEPT !.err = ErrKeyNotFound])
        ELSE /\ CacheReturn(g, [base EXCEPT !.err = out.err,
                                            !.value = out.value])
             /\ UNCHANGED pending
  /\ UNCHANGED <<nonCacheVars, items, ctime, how>>

\* Exists after the read lock.
Exists(g) ==
  /\ cpc[g] = "Exists"
  /\ LET item == csnap[g]
         base == [NoCacheResult EXCEPT !.op = "Exists", !.key = ckey[g],
                                       !.found = item.has,
                                       !.live = Live(item, ctime),
                                       !.orig = item.orig]
     IN IF ~item.has
        THEN /\ CacheReturn(g, base)
             /\ UNCHANGED pending
        ELSE IF ItemExpired(item, ctime)
        THEN /\ pending' = pending \cup {ckey[g]}
             /\ CacheReturn(g, base)
        ELSE /\ CacheReturn(g, [base EXCEPT !.exists = TRUE])
             /\ UNCHANGED pending
  /\ UNCHANGED <<nonCacheVars, items, ctime, how>>

\* Delete: the context check, then delete(m.items, key) under the lock.
Delete(g, k, cancelled) ==
  /\ cpc[g] = "idle"
  /\ IF CtxErr(cancelled) # NoCacheErr
     THEN /\ CacheReturn(g, [NoCacheResult EXCEPT !.op = "Delete", !.key = k,
                                                  !.err = CtxErr(cancelled)])
          /\ UNCHANGED <<items, how>>
     ELSE /\ items' = DeleteItem(items, k)
          /\ how' = [how EXCEPT ![k] = "removed"]
          /\ CacheReturn(g, [NoCacheResult EXCEPT !.op = "Delete", !.key = k])
  /\ UNCHANGED <<nonCacheVars, ctime, pending>>

\* The Delete started by a Get or an Exists that saw an expired entry runs;
\* by then its context may have been cancelled.
AsyncDelete(k, cancelled) ==
  /\ k \in pending
  /\ pending' = pending \ {k}
  /\ IF CtxErr(cancelled) # NoCacheErr
     THEN UNCHANGED <<items, how>>
     ELSE /\ items' = DeleteItem(items, k)
          /\ how' = [how EXCEPT ![k] = "removed"]
  /\ UNCHANGED <<nonCacheVars, ctime, cpc, ckey, carg, csnap, cexp, cres, todo>>

\* deleteExpired, run by the cleanup routine on its ticker.
DeleteExpired ==
  /\ \E k \in CacheKeys : items[k].has /\ ItemExpired(items[k], ctime)
  /\ items' = [k \in CacheKeys |->
                 IF items[k].has /\ ItemExpired(items[k], ctime)
                 THEN NoItem ELSE items[k]]
  /\ how' = [k \in CacheKeys |->
               IF items[k].has /\ ItemExpired(items[k], ctime)
               THEN "removed" ELSE how[k]]
  /\ UNCHANGED <<nonCacheVars, ctime, cpc, ckey, carg, csnap, cexp, pending, cres,
                 todo>>

\* Size: len(m.items) under the read lock.
Size(g) ==
  /\ cpc[g] = "idle"
  /\ CacheReturn(g, [NoCacheResult EXCEPT !.op = "Size",
                                          !.size = Len_items(items),
                                          !.sets = SetKeys])
  /\ UNCHANGED <<nonCacheVars, items, ctime, pending, how>>

\* Clear: m.items = make(map[string]*memoryItem) under the lock.
Clear(g) ==
  /\ cpc[g] = "idle"
  /\ items' = MakeItems
  /\ how' = [k \in CacheKeys |-> "removed"]
  /\ CacheReturn(g, [NoCacheResult EXCEPT !.op = "Clear"])
  /\ UNCHANGED <<nonCacheVars, ctime, pending>>

\* Time passes in the cache's process.
CacheTick ==
  /\ ctime < MaxTicks
  /\ ctime' = ctime + 1
  /\ UNCHANGED <<nonCacheVars, items, cpc, ckey, carg, csnap, cexp, pending, cres,
                 how, todo>>

\* The goroutine of the specification with one goroutine.
OneRoutine == {"g1"}

NextCache ==
  \/ \E g \in OneRoutine, k \in CacheKeys, v \in CacheValues, e \in CacheTtls,
        x \in BOOLEAN : Set(g, k, v, e, x)
  \/ \E g \in OneRoutine : SetStore(g)
  \/ \E g \in OneRoutine, op \in {"Get", "Exists"}, k \in CacheKeys,
        d \in DestTypes, x \in BOOLEAN : Lookup(g, op, k, d, x)
  \/ \E g \in OneRoutine : Get(g)
  \/ \E g \in OneRoutine : Exists(g)
  \/ \E g \in OneRoutine, k \in CacheKeys, x \in BOOLEAN : Delete(g, k, x)
  \/ \E k \in CacheKeys, x \in BOOLEAN : AsyncDelete(k, x)
  \/ DeleteExpired
  \/ \E g \in OneRoutine : Size(g)
  \/ \E g \in OneRoutine : Clear(g)
  \/ CacheTick

\* The cache next to one limiter.
InitCache == Init /\ cfg.variant = "keyed"

SpecCache == InitCache /\ [][NextCache]_vars

\* ------------------------------------- cache: goroutines on their own keys
\* The calls of one round of a goroutine of TestMemoryCacheConcurrency.
WorkerProgram == <<"Set", "Exists", "Get", "Delete", "Exists">>

\* The key only goroutine g uses, and the value it sets.
OwnKeyShared(g) == "k1"
OwnKey(g) == IF g = "g1" THEN "k1" ELSE "k2"
OwnValue(g) == GoString(g)

\* time.Hour: longer than all the time that passes.
Hour == MaxTicks + 1

\* The goroutine makes the next call of its round.
Work(g) ==
  /\ todo[g] # << >>
  /\ \/ Head(todo[g]) = "Set" /\ Set(g, OwnKey(g), OwnValue(g), Hour, FALSE)
     \/ /\ Head(todo[g]) \in {"Exists", "Get"}
        /\ Lookup(g, Head(todo[g]), OwnKey(g), "string", FALSE)
     \/ Head(todo[g]) = "Delete" /\ Delete(g, OwnKey(g), FALSE)

NextWorkers ==
  \/ \E g \in Routines : Work(g)
  \/ \E g \in Routines : SetStore(g)
  \/ \E g \in Routines : Get(g)
  \/ \E g \in Routines : Exists(g)
  \/ CacheTick

\* Every goroutine is about to start its round on the empty cache.
InitWorkers ==
  /\ cfg \in Configs /\ cfg.variant = "keyed"
  /\ LimiterStart
  /\ CacheStart
  /\ todo = [g \in Routines |-> WorkerProgram]
  /\ PoolInit
  /\ HttpInit
  /\ BothInit

SpecWorkers == InitWorkers /\ [][NextWorkers]_vars

\* ------------------------------------------------- goroutine pool: actions
\* p.wg.Add(1), then the call of the ants pool with the wrapped task: the
\* task is taken by a worker, rejected, or the call blocks.
SubmitWrapped(panics) ==
  /\ psub = "idle"
  /\ pnext <= MaxTasks
  /\ pwg' = pwg + 1
  /\ ppanic' = [ppanic EXCEPT ![pnext] = panics]
  /\ pnext' = pnext + 1
  /\ LET out == AntsSubmit(pcfg, preleased, pstate)
     IN IF out = "block"
        THEN /\ pstate' = [pstate EXCEPT ![pnext] = "blocked"]
             /\ psub' = "blocked"
             /\ UNCHANGED pret
        ELSE /\ pstate' = [pstate EXCEPT ![pnext] =
                             IF out = PoolNoErr THEN "running" ELSE "rejected"]
             /\ pret' = out
             /\ UNCHANGED psub
  /\ UNCHANGED <<nonPoolVars, pcfg, perrs, preleased, plist>>

\* pool.Submit(task).
Submit(panics) == pcfg.kind = "pool" /\ SubmitWrapped(panics)

\* funcPool.Invoke(i).
Invoke(panics) == pcfg.kind = "func" /\ SubmitWrapped(panics)

\* The blocked call of the ants pool ends: a worker has become free, or the
\* pool has been released.
Unblock(t) ==
  /\ psub = "blocked" /\ pstate[t] = "blocked"
  /\ LET out == AntsSubmit(pcfg, preleased, pstate)
     IN /\ out # "block"
        /\ pstate' = [pstate EXCEPT ![t] =
                        IF out = PoolNoErr THEN "running" ELSE "rejected"]
        /\ pret' = out
  /\ psub' = "idle"
  /\ UNCHANGED <<nonPoolVars, pcfg, pwg, ppanic, perrs, pnext, preleased,
                 plist>>

\* The wrapper on a worker: the task runs, returns or panics, and the
\* deferred recover records the panic.
TaskRun(t) ==
  /\ pstate[t] = "running"
  /\ pstate' = [pstate EXCEPT ![t] = "ended"]
  /\ perrs' = Recover(perrs, t, ppanic[t])
  /\ UNCHANGED <<nonPoolVars, pcfg, pwg, ppanic, psub, pnext, preleased,
                 pret, plist>>

\* The wrapper's deferred wg.Done(); the worker is free again.
TaskDone(t) ==
  /\ pstate[t] = "ended"
  /\ pstate' = [pstate EXCEPT ![t] = "done"]
  /\ pwg' = pwg - 1
  /\ UNCHANGED <<nonPoolVars, pcfg, ppanic, perrs, psub, pnext, preleased,
                 pret, plist>>

\* The submitting goroutine calls p.wg.Wait().
WaitCall ==
  /\ psub = "idle"
  /\ psub' = "waiting"
  /\ UNCHANGED <<nonPoolVars, pcfg, pwg, pstate, ppanic, perrs, pnext,
                 preleased, pret, plist>>

\* pool.Wait().
Wait == pcfg.kind = "pool" /\ WaitCall

\* funcPool.Waiting().
Waiting == pcfg.kind = "func" /\ WaitCall

\* p.wg.Wait() returns: the counter is zero.
WaitReturn ==
  /\ psub = "waiting"
  /\ pwg = 0
  /\ psub' = "returned"
  /\ UNCHANGED <<nonPoolVars, pcfg, pwg, pstate, ppanic, perrs, pnext,
                 preleased, pret, plist>>

\* ErrList() after the wait; the goroutine may then submit again.
ErrList ==
  /\ psub = "returned"
  /\ plist' = perrs
  /\ psub' = "idle"
  /\ UNCHANGED <<nonPoolVars, pcfg, pwg, pstate, ppanic, perrs, pnext,
                 preleased, pret>>

\* Release(), called by any goroutine.
Release ==
  /\ ~preleased
  /\ preleased' = TRUE
  /\ UNCHANGED <<nonPoolVars, pcfg, pwg, pstate, ppanic, perrs, psub, pnext,
                 pret, plist>>

NextPool ==
  \/ \E x \in BOOLEAN : Submit(x)
  \/ \E x \in BOOLEAN : Invoke(x)
  \/ \E t \in Tasks : Unblock(t)
  \/ \E t \in Tasks : TaskRun(t)
  \/ \E t \in Tasks : TaskDone(t)
  \/ Wait
  \/ Waiting
  \/ WaitReturn
  \/ ErrList
  \/ Release

\* A pool of each kind, size and blocking mode next to one limiter.
InitPool ==
  /\ cfg \in Configs /\ cfg.variant = "keyed"
  /\ LimiterStart
  /\ CacheInit
  /\ pcfg \in PoolConfigs
  /\ PoolStart
  /\ HttpInit
  /\ BothInit

SpecPool == InitPool /\ [][NextPool]_vars

\* The Go scheduler runs every goroutine that can run: a task on a worker
\* ends and calls Done, a blocked call of the ants pool returns, and a Wait
\* whose counter is zero returns.
PoolFairness ==
  /\ \A t \in Tasks : WF_vars(TaskRun(t)) /\ WF_vars(TaskDone(t))
  /\ \A t \in Tasks : WF_vars(Unblock(t))
  /\ WF_vars(WaitReturn)

SpecPoolLive == InitPool /\ [][NextPool]_vars /\ PoolFairness

\* --------------------------------------------------- HTTP client: actions
\* Do returns.
DoReturn(resp, err) ==
  /\ hpc' = "done"
  /\ hres' = DoResult(resp, err)

\* Do(req) up to the loop: setRequestHeaders and the local variables.
Do(req) ==
  /\ hpc = "idle"
  /\ hpc' = "loop"
  /\ hreq' = req
  /\ hretry' = 0
  /\ hlastErr' = HttpNoErr
  /\ hlastResp' = 0
  /\ UNCHANGED <<nonHttpVars, hcfg, hlog, hres>>

\* The loop condition and the body of the loop up to the call of
\* httpClient.Do: req.Body is read to its end and replaced by a buffer of
\* the bytes read.
DoLoop ==
  /\ hpc = "loop"
  /\ IF ~(hretry <= hcfg.retryCount)
     THEN /\ DoReturn(hlastResp, hlastErr)
          /\ UNCHANGED <<hretry, hlog, hlastErr>>
     ELSE IF hreq.kind = "broken"
     THEN /\ hlastErr' = ErrReadRequestBody
          /\ hretry' = hretry + 1
          /\ UNCHANGED <<hpc, hlog, hres>>
     ELSE /\ hpc' = "sent"
          /\ hlog' = Append(hlog, [body |-> hreq.rest, has |-> hreq.kind # "nil",
                                   out |-> Outcome(0, HttpNoErr)])
          /\ UNCHANGED <<hretry, hlastErr, hres>>
  /\ UNCHANGED <<nonHttpVars, hcfg, hreq, hlastResp>>

\* The call of httpClient.Do ended as `out` after reading `used` bytes of
\* req.Body.
Sent(out, used) ==
  /\ hlog' = [hlog EXCEPT ![Len(hlog)].out = out]
  /\ hreq' = [hreq EXCEPT !.rest = SubSeq(@, used + 1, Len(@))]

\* httpClient.Do returns an error, after the transport has read some of the
\* body: retry after RetryDelay, or leave the loop.
ClientError(err, used) ==
  /\ hpc = "sent"
  /\ used \in 0..Len(hreq.rest)
  /\ Sent(Outcome(0, err), used)
  /\ hlastErr' = ErrRequestFailed
  /\ IF isRetryableError(err) /\ hretry < hcfg.retryCount
     THEN /\ hretry' = hretry + 1
          /\ hpc' = "loop"
          /\ UNCHANGED hres
     ELSE /\ DoReturn(hlastResp, ErrRequestFailed)
          /\ UNCHANGED hretry
  /\ UNCHANGED <<nonHttpVars, hcfg, hlastResp>>

\* httpClient.Do returns a response; the transport has sent the whole
\* body, which had the length the request announces.  parseResponse reads
\* the body of the response, which may fail.
ClientResponse(status, readable) ==
  /\ hpc = "sent"
  /\ Len(hreq.rest) = hreq.length
  /\ Sent(Outcome(status, HttpNoErr), Len(hreq.rest))
  /\ IF ~readable
     THEN /\ hlastErr' = ErrReadResponseBody
          /\ hretry' = hretry + 1
          /\ hpc' = "loop"
          /\ UNCHANGED <<hlastResp, hres>>
     ELSE IF status \in retryableStatusCodes /\ hretry < hcfg.retryCount
     THEN /\ hlastResp' = status
          /\ hretry' = hretry + 1
          /\ hpc' = "loop"
          /\ UNCHANGED <<hlastErr, hres>>
     ELSE /\ DoReturn(status, HttpNoErr)
          /\ UNCHANGED <<hretry, hlastErr, hlastResp>>
  /\ UNCHANGED <<nonHttpVars, hcfg>>

\* httpClient.Do returns.
ClientReturns ==
  \/ \E err \in ClientErrors, used \in 0..Len(hreq.rest) :
       ClientError(err, used)
  \/ \E status \in Statuses, readable \in BOOLEAN :
       ClientResponse(status, readable)

NextHttp ==
  \/ \E req \in Requests : Do(req)
  \/ DoLoop
  \/ ClientReturns

\* A client with each RetryCount next to one limiter.
InitHttp ==
  /\ cfg \in Configs /\ cfg.variant = "keyed"
  /\ LimiterStart
  /\ CacheInit
  /\ PoolInit
  /\ hcfg \in [retryCount : RetryCounts]
  /\ HttpStart
  /\ BothInit

SpecHttp == InitHttp /\ [][NextHttp]_vars

\* The caller's goroutine keeps running, and every call of httpClient.Do
\* returns: the server answers or the client's Timeout ends the call.
HttpFairness == WF_vars(DoLoop) /\ WF_vars(ClientReturns)

SpecHttpLive == InitHttp /\ [][NextHttp]_vars /\ HttpFairness

\* ------------------------------------ both variants side by side: calls
\* One AllowN(m) on the key under each variant, both with the same `now`,
\* d ms after the previous call: each variant runs its script on its record
\* and decodes the reply.  d is below the TTL of either record, so no record
\* has expired when the call arrives.
CallBoth(d, m) ==
  /\ both.calls < MaxCalls
  /\ d < Min(TtlSeconds(ExpirationMs), SingleTtlSec) * Unit
  /\ LET nowArg == both.now + d
         k == TakeNScriptNumber(both.keyed, Rate, Burst, nowArg, m)
         s == AllowNScriptNumber(both.single, Rate, Burst, nowArg, m)
     IN both' = [keyed |-> k.rec, single |-> s.rec,
                 resKeyed |-> DecodeKeyed(k.reply),
                 resSingle |-> DecodeSingle(s.reply, m),
                 now |-> nowArg, calls |-> both.calls + 1]
  /\ UNCHANGED nonBothVars

NextBoth == \E d \in NowSteps, m \in 1..Burst : CallBoth(d, m)

InitBoth ==
  /\ cfg \in Configs /\ cfg.variant = "keyed"
  /\ LimiterStart
  /\ CacheInit
  /\ PoolInit
  /\ HttpInit
  /\ BothInit

SpecBoth == InitBoth /\ [][NextBoth]_vars

\* ================================================================ claims
Ran == obs.called /\ obs.ran

\* C1: after every completed call the stored tokens of every key are within
\* [0, capacity], and the remaining value returned is within [0, capacity].
TokensWithinCapacity ==
  /\ \A k \in OneKey :
       store[k].hasTok => (0 <= store[k].tokens /\ store[k].tokens <= cfg.burst * Unit)
  /\ obs.called => (0 <= res.remaining /\ res.remaining <= cfg.burst)

RefillAmount ==
  (Ran /\ obs.elapsed >= 0) =>
    /\ obs.refilled = Min(cfg.burst * Unit, obs.preTokens + obs.elapsed * cfg.rate)
    /\ obs.refilled <= cfg.burst * Unit
    /\ res.allowed <=>
         (Min(cfg.burst * Unit, obs.preTokens + obs.elapsed * cfg.rate) >= obs.n * Unit)
    /\ (obs.preTokens = 0 /\ obs.elapsed = 200 /\ obs.n = 1 /\ cfg.burst >= 2) =>
         (res.allowed /\ res.remaining = 1 /\ res.err = NoErr)

\* C5 witness: the exhausted bucket queried 200 ms later.
RefillAmountWitness ==
  /\ Ran
  /\ ~obs.fresh
  /\ obs.preTokens = 0
  /\ obs.elapsed = 200
  /\ obs.n = 1
  /\ res.allowed
  /\ res.remaining = 1

\* C6: the amount available after refill is never below the tokens stored
\* before the call, also when the caller's now is earlier than the stored
\* last refill time.
RefillNeverDecreases ==
  Ran => obs.refilled >= obs.preTokens

\* C7: AllowN(key, n) with n > capacity is denied, whatever the record holds
\* and however much time has elapsed.
OverCapacityDenied ==
  (Ran /\ obs.n > cfg.burst) => ~res.allowed

\* C7 witness: a request above capacity denied on a bucket that time had
\* refilled to the full capacity.
OverCapacityDeniedWitness ==
  /\ Ran
  /\ obs.n > cfg.burst
  /\ obs.elapsed > 0
  /\ obs.preTokens + obs.elapsed * cfg.rate > cfg.burst * Unit
  /\ obs.refilled = cfg.burst * Unit
  /\ ~res.allowed

\* C8: no step of an AllowN(key, 0) call changes the store: the key's tokens,
\* last refill time and TTL stay what they were.
ZeroCallLeavesStore ==
  [][((\E c \in Callers, k \in OneKey : AllowNEnter(c, k, 0))
       \/ (\E c \in Callers : pc[c] = "run" /\ n[c] = 0 /\ ScriptRun(c)))
      => redis' = redis]_vars

\* C8 witness: AllowN(key, 0) has returned on a key whose record exists.
ZeroCallLeavesStoreWitness ==
  /\ obs.called
  /\ obs.n = 0
  /\ ~obs.ran
  /\ ~obs.fresh
  /\ store[obs.key].hasTok
  /\ store[obs.key].tokens = obs.preTokens

\* C9: AllowN(key, 0) returns allowed = true, a nil error, and remaining equal
\* to the tokens the bucket currently holds.
ZeroCallReportsRemaining ==
  (obs.called /\ obs.n = 0) =>
    /\ res.allowed
    /\ res.err = NoErr
    /\ res.remaining = Trunc(obs.preTokens)

\* C10: AllowN with a negative n is rejected with an error and is never
\* allowed; no script is submitted and the record is unchanged.
NegativeNRejected ==
  (obs.called /\ obs.n < 0) =>
    /\ res.err # NoErr
    /\ ~res.allowed
    /\ ~obs.ran

SingleSubmission ==
  /\ \A c \in Callers : tries[c] = 0
  /\ (obs.called /\ obs.n >= 1) =>
       /\ obs.tries = 1
       /\ obs.ran => obs.refilled - obs.stored \in {0, obs.n * Unit}
       /\ ~obs.ran => obs.stored = obs.preTokens

\* C13 witness: a call for two tokens ended in the error of a lost reply after
\* its single script execution had taken the two tokens.
SingleSubmissionWitness ==
  /\ Ran /\ res.err = ErrStore
  /\ obs.n = 2 /\ obs.tries = 1
  /\ obs.refilled - obs.stored = 2 * Unit

\* The replies of the shape AllowN expects: a list of two elements, the first
\* nil (a false of the script), a boolean or an integer, the second an integer
\* or a float.
WellFormedReply(w) ==
  /\ w.arr
  /\ Len(w.elems) = 2
  /\ w.elems[1].t \in {"nil", "bool", "int64"}
  /\ w.elems[2].t \in {"int64", "float64"}

\* The errors AllowN reports for a reply it cannot decode.
ProtocolErrors == {ErrResultType, ErrTokensType, ErrResponse, ErrAllowedType}

\* C14: a call that received a reply of any other shape returned one of the
\* decoding errors: it did not panic and did not return a nil error.
MalformedReplyRejected ==
  (obs.called /\ obs.replied /\ ~WellFormedReply(wire)) =>
    res.err \in ProtocolErrors

\* C15: a script execution grants exactly when the refilled amount, fraction
\* included, is at least n; the record it writes holds the refilled amount
\* minus the grant with its fraction; the caller gets that amount truncated
\* toward zero; and the next execution refills from the stored amount with
\* its fraction, not from the truncated one.
FractionKept ==
  [][\A c \in Callers :
       (ScriptRun(c) /\ res'.err = NoErr) =>
         LET k == key[c]
             taken == IF res'.allowed THEN n[c] * Unit ELSE 0
         IN /\ res'.allowed <=> obs'.refilled >= n[c] * Unit
            /\ store'[k].hasTok
            /\ store'[k].tokens = obs'.refilled - taken
            /\ res'.remaining = Trunc(store'[k].tokens)
            /\ (store[k].hasTok /\ now[c] >= store[k].last) =>
                 obs'.refilled =
                   Min(cfg.burst * Unit,
                       store[k].tokens + (now[c] - store[k].last) * cfg.rate)]_vars

\* C15 witness: a call for one token found half a token stored, 50 ms later,
\* and was granted: the stored half and the refilled half make one token.  The
\* truncated amount, 0, would have led to a denial.
FractionKeptWitness ==
  /\ Ran /\ res.allowed /\ res.err = NoErr
  /\ obs.n = 1 /\ ~obs.fresh
  /\ obs.preTokens = 500 /\ obs.elapsed = 50
  /\ obs.refilled = Unit /\ obs.stored = 0

\* The idle expiration a limiter is configured with, in ms: Config.Expiration
\* for the keyed variant, the script's fixed 86400 s for the single-key one.
IdleExpiration(c) ==
  IF c.variant = "keyed" THEN c.expiration ELSE SingleTtlSec * Unit

\* C16: after every script execution the key's record exists, with both its
\* fields, and expires one idle expiration after the execution.
TtlRefreshed ==
  [][\A c \in Callers :
       ScriptRun(c) =>
         LET k == key[c]
         IN /\ store'[k].hasTok /\ store'[k].hasLast
            /\ store'[k].tokExp = clock + IdleExpiration(cfg)
            /\ store'[k].lastExp = clock + IdleExpiration(cfg)]_vars

\* C19: a limiter built with a nil config has rate 10, burst 20 and an
\* expiration of one hour, and the records written by a keyed limiter whose
\* config is nil or has a zero Expiration expire one hour after the write.
DefaultExpirationApplied ==
  [][/\ NewRedisBucket(NilConfig) =
          [variant |-> "keyed", rate |-> 10, burst |-> 20, expiration |-> 3600000]
     /\ \A c \in Callers :
          (/\ ScriptRun(c)
           /\ cfg.variant = "keyed"
           /\ cfg.expiration \in {0, DefaultExpirationMs}) =>
            LET k == key[c]
            IN /\ store'[k].hasTok /\ store'[k].hasLast
               /\ store'[k].tokExp = clock + DefaultExpirationMs]_vars

\* C17: a call for one token that finds no record of its key, whether the key
\* was never used or its record was removed by the TTL, meets a full bucket:
\* it is granted and returns capacity - 1 with a nil error.
AbsentIsFull ==
  (Ran /\ obs.replied /\ obs.fresh /\ obs.n = 1) =>
    /\ obs.refilled = cfg.burst * Unit
    /\ res = Result(TRUE, cfg.burst - 1, NoErr)

\* C17 witness: an Allow on a key whose record, holding fewer tokens than the
\* capacity, the TTL had removed was granted with capacity - 1 remaining.
AbsentIsFullWitness ==
  /\ Ran /\ obs.replied /\ obs.fresh /\ obs.reborn /\ obs.n = 1
  /\ res = Result(TRUE, cfg.burst - 1, NoErr)
  /\ clock >= TtlMs(cfg)

\* C18: a script execution for one key leaves the record of every other key,
\* its tokens, last refill time and expiry, as it was.
KeysIndependent ==
  [][\A c \in Callers :
       ScriptRun(c) =>
         \A j \in Keys \ {key[c]} : store'[j] = store[j]]_vars

\* C20: a key whose latest change is a Set has its entry, holding the JSON
\* text of the value set, and a key whose latest change is a Delete, a Clear
\* or the cleanup has none.  Exists and Get that found the entry of a Set
\* before its expiry return true and, for a dest of the value's type, a value
\* equal to the one set; when they found no entry they return false and
\* ErrKeyNotFound.  Size returns the number of keys whose latest change is a
\* Set, and nothing is left once Clear has returned.
SetThenRead ==
  /\ \A k \in CacheKeys :
       /\ how[k] = "set" =>
            items[k].has /\ items[k].value = Marshal(items[k].orig)
       /\ how[k] = "removed" => ~items[k].has
  /\ (cres.op = "Exists" /\ cres.err = NoCacheErr) =>
       /\ cres.live => cres.exists
       /\ ~cres.found => ~cres.exists
  /\ (cres.op = "Get" /\ cres.err # ErrContext) =>
       /\ (cres.live /\ cres.dest = cres.orig.t) =>
            cres.err = NoCacheErr /\ cres.value = cres.orig
       /\ ~cres.found => cres.err = ErrKeyNotFound
  /\ cres.op = "Size" => cres.size = cres.sets
  /\ cres.op = "Clear" => \A k \in CacheKeys : ~items[k].has

\* C20 witness: Get returned the integer a Set had stored under the key, read
\* into a dest of type int, while the other key's entry had been removed.
SetThenReadWitness ==
  /\ cres.op = "Get" /\ cres.err = NoCacheErr
  /\ cres.live /\ cres.dest = "int"
  /\ cres.value = GoInt("1") /\ cres.orig = GoInt("1")
  /\ how[cres.key] = "set"
  /\ \E k \in CacheKeys \ {cres.key} : how[k] = "removed"

\* C21: Set gives an entry the expiry now + expiration when the expiration is
\* positive and none otherwise.  Get and Exists that read an entry whose
\* expiry has passed return ErrKeyNotFound and (false, nil), whether or not
\* the cleanup has removed it; for an entry without expiry they never do; and
\* the cleanup leaves the entries without expiry in place.
ExpiredInvisible ==
  [][/\ \A g \in Routines, k \in CacheKeys, v \in CacheValues, e \in CacheTtls :
          (Set(g, k, v, e, FALSE) /\ cpc'[g] = "store") =>
            /\ csnap'[g].zero <=> e <= 0
            /\ e > 0 => cexp'[g] = ctime + e
     /\ \A g \in Routines :
          Get(g) =>
            /\ (csnap[g].has /\ ~csnap[g].zero /\ ctime > csnap[g].expiration)
                 => cres'.err = ErrKeyNotFound
            /\ (csnap[g].has /\ csnap[g].zero) => cres'.err # ErrKeyNotFound
     /\ \A g \in Routines :
          Exists(g) =>
            /\ (csnap[g].has /\ ~csnap[g].zero /\ ctime > csnap[g].expiration)
                 => ~cres'.exists /\ cres'.err = NoCacheErr
            /\ (csnap[g].has /\ csnap[g].zero) => cres'.exists
     /\ DeleteExpired =>
          \A k \in CacheKeys :
            (items[k].has /\ items[k].zero) => items'[k] = items[k]]_vars

\* C21 witness: Exists returned false for an entry whose expiry had passed
\* and which the cleanup has not removed: it is still in items.
ExpiredInvisibleWitness ==
  /\ cres.op = "Exists" /\ cres.err = NoCacheErr
  /\ cres.found /\ ~cres.live /\ ~cres.exists
  /\ items[cres.key].has /\ ~items[cres.key].zero
  /\ ctime > items[cres.key].expiration

\* C22: Set, Get, Exists and Delete called with a cancelled context return
\* the context's error at once and leave the entries of the cache as they
\* were; no asynchronous delete is started.
CancelledReturnsError ==
  [][\A g \in Routines, k \in CacheKeys :
       LET Refused == /\ cres'.err = ErrContext /\ cres'.key = k
                      /\ ~cres'.exists /\ cres'.value = NoCacheResult.value
                      /\ cpc'[g] = "idle"
                      /\ items' = items /\ pending' = pending
       IN /\ \A v \in CacheValues, e \in CacheTtls :
               Set(g, k, v, e, TRUE) => Refused /\ cres'.op = "Set"
          /\ \A op \in {"Get", "Exists"}, d \in DestTypes :
               Lookup(g, op, k, d, TRUE) => Refused /\ cres'.op = op
          /\ Delete(g, k, TRUE) => Refused /\ cres'.op = "Delete"]_vars

\* C22 witness: a Delete with a cancelled context has returned the
\* context's error and the entry of its key is still in the cache.
CancelledReturnsErrorWitness ==
  /\ cres.op = "Delete" /\ cres.err = ErrContext
  /\ items[cres.key].has /\ how[cres.key] = "set"

\* C23: goroutines that each run Set, Exists, Get, Delete, Exists on a key
\* of their own get, under every interleaving, the results of running alone:
\* no call returns an error, the first Exists finds the key, Get reads the
\* value the goroutine set, and the Exists after Delete does not find it.
OwnKeysSequential ==
  [][\A g \in Routines :
       todo'[g] # todo[g] =>
         /\ cres'.op = Head(todo[g]) /\ cres'.key = OwnKey(g)
         /\ cres'.err = NoCacheErr
         /\ Len(todo[g]) = 4 => cres'.exists
         /\ Len(todo[g]) = 3 => cres'.value = OwnValue(g)
         /\ Len(todo[g]) = 1 => ~cres'.exists]_vars

\* C23 witness: a goroutine has got false from its last Exists while the
\* other one, whose entry is in the cache, is in the middle of its Get.
OwnKeysSequentialWitness ==
  /\ todo["g1"] = << >> /\ cres.op = "Exists" /\ cres.key = "k1"
  /\ ~cres.exists /\ cres.err = NoCacheErr
  /\ cpc["g2"] = "Get" /\ items["k2"].has /\ ~items["k1"].has

\* C28: an entry that is in the cache and has not expired leaves the cache
\* only by a Delete of its key or a Clear called by the user.
LiveEntryKept ==
  [][\A k \in CacheKeys :
       (Live(items[k], ctime) /\ ~items'[k].has) =>
         \E g \in Routines : Delete(g, k, FALSE) \/ Clear(g)]_vars

\* The tasks the ants pool accepted.
Accepted == {t \in Tasks : pstate[t] \in {"running", "ended", "done"}}

\* C24: when Wait or Waiting has returned, every task the pool accepted has
\* finished, the panicking tasks and the others alike, and errList holds
\* exactly one error for each task that panicked and none for the others;
\* ErrList() returns that list.
WaitCollectsPanics ==
  psub = "returned" =>
       /\ \A t \in Accepted : pstate[t] = "done"
       /\ \A t \in Accepted :
            Cardinality({i \in 1..Len(perrs) : perrs[i] = t})
              = IF ppanic[t] THEN 1 ELSE 0
       /\ \A i \in 1..Len(perrs) : perrs[i] \in Accepted

\* C24 witness: Waiting has returned on a pool with one worker after the
\* first task panicked and a later task ran and returned normally.
WaitCollectsPanicsWitness ==
  /\ psub = "returned" /\ pcfg.kind = "func" /\ pcfg.size = 1
  /\ pstate[1] = "done" /\ ppanic[1]
  /\ pstate[2] = "done" /\ ~ppanic[2]
  /\ perrs = <<1>>

\* C29: a Wait or Waiting that has been called returns once every accepted
\* task has finished, whether or not a Submit or Invoke was rejected.
WaitReturns ==
  (psub = "waiting" /\ \A t \in Accepted : pstate[t] = "done")
    ~> (psub = "returned")

\* C25: Do calls httpClient.Do at most RetryCount + 1 times; while fewer than
\* RetryCount retries have been made, a call that ends in an error or in one
\* of the statuses 408, 425, 429, 500, 502, 503, 504 is followed by another
\* call; a response with any other status ends Do, which returns it with a
\* nil error; and every Do returns.
RetryContract ==
  /\ [](Len(hlog) <= hcfg.retryCount + 1)
  /\ [][/\ \A err \in ClientErrors, used \in 0..Len(hreq.rest) :
             (ClientError(err, used) /\ hretry < hcfg.retryCount) =>
               hpc' = "loop" /\ hretry' = hretry + 1
        /\ \A status \in Statuses :
             ClientResponse(status, TRUE) =>
               IF status \in {408, 425, 429, 500, 502, 503, 504}
               THEN hretry < hcfg.retryCount =>
                      hpc' = "loop" /\ hretry' = hretry + 1
               ELSE hpc' = "done" /\ hres' = DoResult(status, HttpNoErr)
        /\ (DoLoop /\ hlog # << >> /\ hretry <= hcfg.retryCount) =>
             hpc' = "sent" /\ Len(hlog') = Len(hlog) + 1]_vars
  /\ (hpc \in {"loop", "sent"}) ~> (hpc = "done")

\* C25 witness: with RetryCount 2 the server answered 500 twice and then
\* 200; Do made three calls and returned the 200 with a nil error.
RetryContractWitness ==
  /\ hpc = "done" /\ hcfg.retryCount = 2 /\ hreq.kind = "nil"
  /\ Len(hlog) = 3
  /\ hlog[1].out = Outcome(500, HttpNoErr)
  /\ hlog[2].out = Outcome(500, HttpNoErr)
  /\ hlog[3].out = Outcome(200, HttpNoErr)
  /\ hres = DoResult(200, HttpNoErr)

\* C30: every call of httpClient.Do that Do makes for a request has the
\* bytes to send that the first call had.
SameBodyEveryAttempt ==
  \A i \in 1..Len(hlog) : hlog[i].body = hlog[1].body

\* C27: given the same rate, capacity and calls (now, n) with n >= 1 on one
\* key, and no record expiring, the keyed and the single-key variant return
\* the same allowed and remaining at every call and hold the same tokens and
\* last refill time after it.
VariantsEquivalent ==
  /\ both.resKeyed.allowed = both.resSingle.allowed
  /\ both.resKeyed.remaining = both.resSingle.remaining
  /\ both.keyed.tokens = both.single.tokens
  /\ both.keyed.last = both.single.last

\* C26: over the calls on one key that the store admitted since any moment,
\* as long as their `now` values did not decrease, the tokens granted are at
\* most capacity + rate * T / 1000, T being the time from the first `now` to
\* the latest.
RateBound ==
  (win.open /\ win.started /\ win.ordered) =>
    win.granted * Unit <= cfg.burst * Unit + cfg.rate * (win.last - win.first)
====
